---- MODULE Spec2Model ----
(***************************************************************************)
(* Pulse detection of rtl_433 (src/src/pulse_detect.c): the median         *)
(* smoother, the peak followers, the OOK state machine and the pulse       *)
(* records it fills, stepped one sample at a time.                         *)
(*                                                                         *)
(* Doubles of the peak follower are kept at a resolution of one sample     *)
(* unit, rounded to nearest.  C's "/" on ints truncates toward zero        *)
(* (CDiv); int16_t stores wrap (ToInt16).                                  *)
(***************************************************************************)
EXTENDS Integers, Sequences, FiniteSets, TLC

\* ------------------------------------------------------------------ bounds
\* Length of the sample stream a behaviour consumes.
MaxSamples == 20
\* Capacity of a pulse record (pulse_data.h; 1200 upstream), scaled down.
PD_MAX_PULSES == 3
\* Slowness of the noise estimator and length of the lead-in
\* (1024 at pulse_detect.c:31), scaled down.
OOK_EST_LOW_RATIO == 1
\* Slowness of the signal estimator (64 at pulse_detect.c:30), scaled down.
OOK_EST_HIGH_RATIO == 1
\* Window of the detector's median filter (15 at pulse_detect.c:82), scaled down.
MedianWindow == 3
\* Length of the stream where every input varies.
ShortRun == 7
\* Length of the stream whose calls differ in sample rate.
RatesRun == 12
\* Length of the stream of each of two detectors that run side by side.
PairRun == 6
FskRun == 12

\* ------------------------------------------- constants of the source
PD_OOK_STATE_IDLE == 0
PD_OOK_STATE_PULSE == 1
PD_OOK_STATE_GAP_START == 2
PD_OOK_STATE_GAP == 3
MIN_DB == -20

\* --------------------- constants of pulse_data.h / pulse_detect_fsk.h
\* (not among the sources; small values that keep their order relations)
PD_MIN_PULSE_SAMPLES == 2
PD_MIN_PULSES == 1
PD_MIN_GAP_MS == 3
PD_MAX_GAP_MS == 5
PD_MAX_GAP_RATIO == 2
PULSE_DATA_OOK == 1
PULSE_DATA_FSK == 2
FSK_PULSE_DETECT_OLD == 0
FSK_PULSE_DETECT_NEW == 1

\* ------------------------------------------------------------ inputs
\* Envelope samples: silence and a carrier well above the follower's floor.
AmSamples == {0, 20000}
\* FM discriminator samples.
FmSamples == {5000}
\* Values an uninitialised int16_t may hold (ook_threshold_low is never written).
UninitInt16 == {-32768, 0, 32767}
\* Sample rates a caller passes (samples_per_ms = samp_rate / 1000).
SampRates == {1000}

\* ------------------------------------------------------- arithmetic
MAX(a, b) == IF a > b THEN a ELSE b
MIN(a, b) == IF a < b THEN a ELSE b

\* C integer division (b > 0): truncation toward zero.
CDiv(a, b) == IF a >= 0 THEN a \div b ELSE -((-a) \div b)

\* Store into an int16_t.
ToInt16(x) == ((x + 32768) % 65536) - 32768

\* A double product or quotient, kept to the nearest unit.
RoundDiv(n, d) == (2 * n + d) \div (2 * d)

\* DB_TO_AMP(x) = (int)10^((x + 42.1442) / 10), tabulated at the levels used.
DB_TO_AMP(db) ==
    CASE db = 0 -> 16384
      [] db = -6 -> 4115
      [] db = -12 -> 1000
      [] db = -15 -> 518
      [] OTHER -> 0

\* DB_TO_AMP_F(9.0) = 7.94 stored into int ook_high_low_ratio.
DB_TO_AMP_F(db) ==
    CASE db = 9 -> 7
      [] OTHER -> 1

OOK_MAX_HIGH_LEVEL == DB_TO_AMP(0)

\* db_to_linear(db) = (int16_t)(10^(db/20) * 32767), tabulated.
db_to_linear(db) ==
    CASE db = 0 -> 32767
      [] db = -20 -> 3276
      [] OTHER -> 0

\* ------------------------------------------------------ median filter
median_filter_create(window_size) == [i \in 1..window_size |-> 0]

\* (mutant) The difference is cut to 16 bits.
compare_int16_cut(a, b) == ToInt16(a - b)

\* The difference of the two values, taken in int.
compare_int16(a, b) == a - b

\* Shift the history, insert the sample, sort a copy, return the middle.
median_filter_process(values, sample) ==
    LET W      == Len(values)
        shifted == [i \in 1..W |-> IF i = 1 THEN sample ELSE values[i - 1]]
        temp   == SortSeq(shifted, LAMBDA a, b: compare_int16(a, b) < 0)
    IN  [values |-> shifted, out |-> temp[(W \div 2) + 1]]

\* ------------------------------------------------------ peak follower
AttackNum == 1
AttackDen == 20
ReleaseNum == 99999
ReleaseDen == 100000

peak_follower_create(mindB) ==
    [current_high_peak |-> 0,
     current_low_peak  |-> 0,
     min_val           |-> db_to_linear(IF mindB > 0 THEN 0 ELSE mindB)]

Abs(x) == IF x < 0 THEN -x ELSE x

Attack(peak, x) == RoundDiv(AttackNum * peak + (AttackDen - AttackNum) * x, AttackDen)
\* release * peak, as peak - (1 - release) * peak to stay within 32 bits.
Release(peak) == peak - RoundDiv((ReleaseDen - ReleaseNum) * peak, ReleaseDen)

\* The value written to *high_peak.
HighPeakOut(f) ==
    IF Abs(f.current_high_peak) < f.min_val THEN 0 ELSE ToInt16(f.current_high_peak)

\* Updates both peaks and writes *high_peak; *low_peak is never written.
peak_follower_process(f, sample) ==
    LET hp == IF sample > f.current_high_peak
              THEN Attack(f.current_high_peak, sample)
              ELSE Release(f.current_high_peak)
        lp == IF sample < f.current_low_peak
              THEN Attack(f.current_low_peak, sample)
              ELSE Release(f.current_low_peak)
        g  == [f EXCEPT !.current_high_peak = hp, !.current_low_peak = lp]
    IN  [follower |-> g, high_peak |-> HighPeakOut(g)]

\* peak_follower_create with the rates it is given; a rate is a pair
\* <<numerator, denominator>>.
PeakFollowerCreated(attack_rate, release_rate, mindB) ==
    [attack_rate  |-> attack_rate,
     release_rate |-> release_rate,
     follower     |-> peak_follower_create(mindB)]

\* --------------------------------------------------------- DC blocker
\* The sum is an int32_t: with a ring of at most 65536 samples of 16 bits
\* it stays within 32 bits, so the sums below are exact.

\* calloc'ed ring buffer (indexed from 0), zero sum, index 0.
dc_blocker_create(buffer_length) ==
    [buffer        |-> [k \in 0..(buffer_length - 1) |-> 0],
     sum           |-> 0,
     buffer_length |-> buffer_length,
     index         |-> 0]

\* (mutant) The sample that leaves the ring is not taken off the sum.
RingSumKept(sum, leaving, sample) == sum + sample

\* The running sum once the sample has replaced the one that leaves.
RingSum(sum, leaving, sample) == (sum - leaving) + sample

\* (mutant) The mean is taken over one sample more than the ring holds.
MeanValueOff(sum, buffer_length) == ToInt16(CDiv(sum, buffer_length + 1))

\* (int16_t)(self->sum / self->buffer_length)
MeanValue(sum, buffer_length) == ToInt16(CDiv(sum, buffer_length))

\* The blocker after the sample, and the value returned.
dc_blocker_filter(self, sample) ==
    [blocker |->
        [self EXCEPT
           !.sum = RingSum(@, self.buffer[self.index], sample),
           !.buffer = [@ EXCEPT ![self.index] = sample],
           !.index = (@ + 1) % self.buffer_length],
     out |-> ToInt16(sample
                     - MeanValue(RingSum(self.sum, self.buffer[self.index], sample),
                                 self.buffer_length))]

\* --------------------------------------------------------- WAV dumper
\* The chunk sizes written at creation.
PlaceholderSize == 268435455

\* sizeof(int16_t)
SampleBytes == 2

\* The writer and the file after wav_dumper_create: the header carries
\* placeholder sizes, no sample data follows it.
wav_dumper_create(buffer_size) ==
    [writer |-> [status |-> "open", buffer_size |-> buffer_size,
                 buffer |-> [k \in 0..(buffer_size - 1) |-> 0],
                 samples_written |-> 0],
     file   |-> [chunk_size |-> PlaceholderSize,
                 subchunk2_size |-> PlaceholderSize,
                 data |-> <<>>]]

\* The first n samples of the buffer, in order.
Block(buffer, n) == [k \in 1..n |-> buffer[k - 1]]

\* The sample is buffered; a full buffer is written to the file.
wav_dumper_write_sample(w, f, sample) ==
    [writer |->
        [w EXCEPT !.buffer = [@ EXCEPT ![w.samples_written % w.buffer_size] = sample],
                  !.samples_written = @ + 1],
     file |->
        IF (w.samples_written + 1) % w.buffer_size = 0
        THEN [f EXCEPT !.data =
                 @ \o Block([w.buffer EXCEPT
                                ![w.samples_written % w.buffer_size] = sample],
                            w.buffer_size)]
        ELSE f]

\* samples_written after flush_buffer.
FlushedCount(samples_written, buffer_size) ==
    samples_written + (samples_written % buffer_size)

\* The samples still buffered are written to the file.
flush_buffer(w, f) ==
    [writer |-> [w EXCEPT !.samples_written = FlushedCount(@, w.buffer_size)],
     file   |-> [f EXCEPT !.data =
                    @ \o Block(w.buffer, w.samples_written % w.buffer_size)]]

\* The header is patched with the sizes computed from samples_written
\* (uint32_t, exact below 2^31 samples).
PatchHeader(w, f) ==
    [writer |-> [w EXCEPT !.status = "destroyed"],
     file   |-> [f EXCEPT
                   !.chunk_size = 36 + w.samples_written * SampleBytes,
                   !.subchunk2_size = w.samples_written * SampleBytes]]

\* flush, patch the header, close.
wav_dumper_destroy(w, f) ==
    PatchHeader(flush_buffer(w, f).writer, flush_buffer(w, f).file)

\* ------------------------------------------------------- pulse records
ZeroArray == [k \in 0..(PD_MAX_PULSES - 1) |-> 0]

\* A caller's zero-initialised pulse_data_t.
NewPulseData ==
    [offset |-> 0, sample_rate |-> 0, start_ago |-> 0, end_ago |-> 0,
     num_pulses |-> 0, pulse |-> ZeroArray, gap |-> ZeroArray,
     ook_low_estimate |-> 0, ook_high_estimate |-> 0,
     fsk_f1_est |-> 0, fsk_f2_est |-> 0]

\* pulse_data_clear: the record is zeroed.
pulse_data_clear(p) == NewPulseData

\* arr[i] = v as the build performs it: inside the array, or outside it.
InBounds(i) == i \in 0..(PD_MAX_PULSES - 1)
Store(arr, i, v) == IF InBounds(i) THEN [arr EXCEPT ![i] = v] ELSE arr
\* arr[i], read where a store at the same index came before.
Load(arr, i) == IF InBounds(i) THEN arr[i] ELSE 0

\* -------------------------------------------------- FSK sub-detector
\* pulse_detect_fsk.c is not among the sources.  A fed sample may close a
\* subpulse (flip); the estimates follow the sample.
pulse_detect_fsk_init == [fm_f1_est |-> 0, fm_f2_est |-> 0]

FskAddPulse(f) ==
    IF f.num_pulses < PD_MAX_PULSES THEN [f EXCEPT !.num_pulses = @ + 1] ELSE f

\* pulse_detect_fsk_classic / pulse_detect_fsk_minmax on one FM sample.
pulse_detect_fsk_feed(fsk, f, fm_n, flip) ==
    IF flip
    THEN [fsk |-> [fsk EXCEPT !.fm_f2_est = fm_n], f |-> FskAddPulse(f)]
    ELSE [fsk |-> [fsk EXCEPT !.fm_f1_est = fm_n], f |-> f]

\* pulse_detect_fsk_wrap_up: the trailing subpulse is flushed.
pulse_detect_fsk_wrap_up(f) == FskAddPulse(f)

\* ------------------------------------------------------- thresholds
\* Peak-follower mode: thresholds around the centre of (high, low).
PeakThresholds(high, low) ==
    LET amplitude == ToInt16(CDiv(high - low, 2))
        center    == ToInt16(low + amplitude)
    IN  [hi |-> ToInt16(center + CDiv(amplitude, 4)),
         lo |-> ToInt16(center - CDiv(amplitude, 4))]

\* Classical mode: midpoint of the estimates, or the manual override.
ClassicThresholds(d) ==
    LET mid        == ToInt16(CDiv(d.ook_low_estimate + d.ook_high_estimate, 2))
        threshold  == IF d.ook_fixed_high_level # 0
                      THEN ToInt16(d.ook_fixed_high_level) ELSE mid
        hysteresis == ToInt16(CDiv(threshold, 8))
    IN  [hi |-> ToInt16(threshold + hysteresis),
         lo |-> ToInt16(threshold - hysteresis)]

\* The decoded square wave kept in the static out_am.
DecodeAm(out, am_n, thr) ==
    IF thr.hi # 0
    THEN IF am_n > thr.hi THEN 32767 ELSE IF am_n < thr.lo THEN 0 ELSE out
    ELSE out

\* The decoded square wave kept in the static out_fm, gated by out_am.
DecodeFm(out, fm_n, thr, am_out) ==
    LET o == IF fm_n > thr.hi THEN 32767 ELSE IF fm_n < thr.lo THEN 0 ELSE out
    IN  IF am_out # 0 THEN o ELSE 0

\* ------------------------------------------------- OOK state machine
\* The state machine works on x = [d, p, f, eop, ret, full, oob]: the detector
\* (struct pulse_detect), pulses, fsk_pulses, the local eop_on_spurious, the
\* value returned (0: the loop goes on), whether it is returned because the
\* record is full, and whether a store fell outside pulse[]/gap[]; and on c: the sample as conditioned (am_n, fm_n), the
\* thresholds (hi, lo), the call's arguments, and flip for the sub-detector.

\* (mutant) The lead-in is taken to be over one sample early.
LeadInDoneEarly(lead_in_counter) == lead_in_counter >= OOK_EST_LOW_RATIO

\* The lead-in has settled the noise estimate.
LeadInDone(lead_in_counter) == lead_in_counter > OOK_EST_LOW_RATIO

\* A pulse too short to count.
IsSpurious(pulse_length) == pulse_length < PD_MIN_PULSE_SAMPLES

\* A spurious pulse that is taken for the first of its burst.
IsFirstPulse(num_pulses) == num_pulses <= 1

\* (mutant) A gap is taken to be real one sample late.
GapIsRealLate(pulse_length) == pulse_length > PD_MIN_PULSE_SAMPLES

\* The gap has lasted long enough to be real.
GapIsReal(pulse_length) == pulse_length >= PD_MIN_PULSE_SAMPLES

\* The FM record holds enough subpulses to be an FSK package.
\* (mutant) FSK modulation is detected with PD_MIN_PULSES subpulses.
FskDetectedAtMin(num_pulses) == num_pulses >= PD_MIN_PULSES

FskDetected(num_pulses) == num_pulses > PD_MIN_PULSES

\* (mutant) The record is taken to be full one entry late.
RecordFullLate(num_pulses) == num_pulses > PD_MAX_PULSES

\* The record is full.
RecordFull(num_pulses) == num_pulses >= PD_MAX_PULSES

\* (mutant) The gap ends the package, the maximum gap being left out.
GapTooLongByRatio(eop, pulse_length, max_pulse, samples_per_ms) ==
    \/ eop # 0
    \/ /\ pulse_length > PD_MAX_GAP_RATIO * max_pulse
       /\ pulse_length > PD_MIN_GAP_MS * samples_per_ms

\* (mutant) The gap ends the package, the minimum gap being left out.
GapTooLongNoMin(eop, pulse_length, max_pulse, samples_per_ms) ==
    \/ eop # 0
    \/ pulse_length > PD_MAX_GAP_RATIO * max_pulse
    \/ pulse_length > PD_MAX_GAP_MS * samples_per_ms

\* The gap ends the package.
GapTooLong(eop, pulse_length, max_pulse, samples_per_ms) ==
    \/ eop # 0
    \/ /\ pulse_length > PD_MAX_GAP_RATIO * max_pulse
       /\ pulse_length > PD_MIN_GAP_MS * samples_per_ms
    \/ pulse_length > PD_MAX_GAP_MS * samples_per_ms

\* The noise estimate after one idle sample.
LowEstimate(low, am_n) ==
    low + CDiv(am_n - low, OOK_EST_LOW_RATIO) + (IF am_n - low > 0 THEN 1 ELSE -1)

ClampHigh(d, v) == MIN(MAX(v, d.ook_min_high_level), OOK_MAX_HIGH_LEVEL)

\* The result of the sub-detector is stored.
FskFed(x, r) ==
    [x EXCEPT !.d.pulse_detect_fsk = r.fsk, !.f = r.f, !.fed = TRUE]

\* (mutant) The sub-detector is fed during every pulse.
FskDemodAlways(x, c) ==
    FskFed(x, pulse_detect_fsk_feed(x.d.pulse_detect_fsk, x.f, c.fm_n, c.flip))

\* The sub-detector is fed during the first pulse only.
FskDemod(x, c) ==
    IF x.p.num_pulses = 0
    THEN FskFed(x, pulse_detect_fsk_feed(x.d.pulse_detect_fsk, x.f, c.fm_n, c.flip))
    ELSE x

\* (mutant) The offset of a burst is taken to be that of its buffer.
BurstOffsetOfBuffer(sample_offset, data_counter) == sample_offset

\* The position in the stream of the sample that begins a burst.
BurstOffset(sample_offset, data_counter) == sample_offset + data_counter

\* A package begins: both records are cleared and seeded.
BeginPackage(x, c) ==
    [x EXCEPT
       !.p = [pulse_data_clear(x.p) EXCEPT
                !.sample_rate = c.samp_rate,
                !.offset      = BurstOffset(c.sample_offset, x.d.data_counter),
                !.start_ago   = c.len - x.d.data_counter],
       !.f = [pulse_data_clear(x.f) EXCEPT
                !.sample_rate = c.samp_rate,
                !.offset      = BurstOffset(c.sample_offset, x.d.data_counter),
                !.start_ago   = c.len - x.d.data_counter],
       !.d.pulse_length = 0,
       !.d.max_pulse = 0,
       !.d.pulse_detect_fsk = pulse_detect_fsk_init,
       !.d.ook_state = PD_OOK_STATE_PULSE]

\* Still idle: the noise level is estimated and the lead-in counted.
StayIdle(x, c) ==
    [x EXCEPT
       !.d.ook_low_estimate  = LowEstimate(@, c.am_n),
       !.d.ook_high_estimate =
           ClampHigh(x.d, x.d.ook_high_low_ratio
                            * LowEstimate(x.d.ook_low_estimate, c.am_n)),
       !.d.lead_in_counter   = IF @ <= OOK_EST_LOW_RATIO THEN @ + 1 ELSE @]

StateIdle(x, c) ==
    IF c.am_n > c.hi /\ LeadInDone(x.d.lead_in_counter)
    THEN BeginPackage(x, c)
    ELSE StayIdle(x, c)

\* s->pulse_length += 1
Counted(x) == [x EXCEPT !.d.pulse_length = @ + 1]

\* The pulse ends: it is dropped as spurious, or its width is stored.
PulseEnds(x) ==
    IF IsSpurious(x.d.pulse_length)
    THEN IF IsFirstPulse(x.p.num_pulses)
         THEN [x EXCEPT !.d.ook_state = PD_OOK_STATE_IDLE]
         ELSE [x EXCEPT !.eop = 1, !.d.ook_state = PD_OOK_STATE_GAP]
    ELSE [x EXCEPT
            !.p.pulse = Store(@, x.p.num_pulses, x.d.pulse_length),
            !.oob = @ \/ ~InBounds(x.p.num_pulses),
            !.d.max_pulse = MAX(x.d.pulse_length, @),
            !.d.pulse_length = 0,
            !.d.ook_state = PD_OOK_STATE_GAP_START]

\* Still pulse: the signal level and the carrier frequency are estimated.
PulseLasts(x, c) ==
    [x EXCEPT
       !.d.ook_high_estimate =
           ClampHigh(x.d, @ + CDiv(c.am_n, OOK_EST_HIGH_RATIO)
                            - CDiv(@, OOK_EST_HIGH_RATIO)),
       !.p.fsk_f1_est =
           @ + CDiv(c.fm_n, OOK_EST_HIGH_RATIO) - CDiv(@, OOK_EST_HIGH_RATIO)]

PulseSample(x, c) == IF c.am_n < c.lo THEN PulseEnds(x) ELSE PulseLasts(x, c)

StatePulse(x, c) == FskDemod(PulseSample(Counted(x), c), c)

\* The FSK package is finalised and returned.
ReturnFsk(x, c) ==
    [x EXCEPT
       !.f = [(IF c.fpdm = FSK_PULSE_DETECT_OLD
               THEN pulse_detect_fsk_wrap_up(x.f) ELSE x.f) EXCEPT
                !.fsk_f1_est = x.d.pulse_detect_fsk.fm_f1_est,
                !.fsk_f2_est = x.d.pulse_detect_fsk.fm_f2_est,
                !.ook_low_estimate  = x.d.ook_low_estimate,
                !.ook_high_estimate = x.d.ook_high_estimate,
                !.end_ago = c.len - x.d.data_counter],
       !.p.end_ago = c.len - x.d.data_counter,
       !.d.ook_state = PD_OOK_STATE_IDLE,
       !.ret = PULSE_DATA_FSK]

\* The gap is real: an FSK package is returned, or the gap goes on.
GapBegins(x, c) ==
    IF FskDetected(x.f.num_pulses) THEN ReturnFsk(x, c) ELSE FskDemod(x, c)

\* (mutant) The width counted before the short gap is dropped.
RestoredNot(pulse_length, stored) == pulse_length

\* Restore counter: the width stored when the pulse fell is counted again.
Restored(pulse_length, stored) == pulse_length + stored

GapStartSample(x, c) ==
    IF c.am_n > c.hi
    THEN FskDemod([x EXCEPT
                     !.d.pulse_length = Restored(@, Load(x.p.pulse, x.p.num_pulses)),
                     !.d.ook_state = PD_OOK_STATE_PULSE], c)
    ELSE IF GapIsReal(x.d.pulse_length)
    THEN GapBegins([x EXCEPT !.d.ook_state = PD_OOK_STATE_GAP], c)
    ELSE FskDemod(x, c)

StateGapStart(x, c) == GapStartSample(Counted(x), c)

\* (mutant) The OOK package is returned with the machine left in GAP.
ReturnOokInGap(x, c) ==
    [x EXCEPT
       !.p.ook_low_estimate  = x.d.ook_low_estimate,
       !.p.ook_high_estimate = x.d.ook_high_estimate,
       !.p.end_ago = c.len - x.d.data_counter,
       !.ret = PULSE_DATA_OOK]

\* The OOK package is finalised and returned.
ReturnOok(x, c) ==
    [x EXCEPT
       !.d.ook_state = PD_OOK_STATE_IDLE,
       !.p.ook_low_estimate  = x.d.ook_low_estimate,
       !.p.ook_high_estimate = x.d.ook_high_estimate,
       !.p.end_ago = c.len - x.d.data_counter,
       !.ret = PULSE_DATA_OOK]

\* The gap width is stored and the entry closed.
CloseEntry(x) ==
    [x EXCEPT
       !.p.gap = Store(@, x.p.num_pulses, x.d.pulse_length),
       !.oob = @ \/ ~InBounds(x.p.num_pulses),
       !.p.num_pulses = @ + 1]

\* EOP if gap is too long.
GapEnd(x, c) ==
    IF GapTooLong(x.eop, x.d.pulse_length, x.d.max_pulse, c.samp_rate \div 1000)
    THEN ReturnOok(CloseEntry(x), c)
    ELSE x

\* A new pulse after the entry is closed: EOP if too many pulses.
GapRising(x, c) ==
    IF RecordFull(x.p.num_pulses)
    THEN [ReturnOok(x, c) EXCEPT !.full = TRUE]
    ELSE GapEnd([x EXCEPT !.d.pulse_length = 0,
                          !.d.ook_state = PD_OOK_STATE_PULSE], c)

GapSample(x, c) ==
    IF c.am_n > c.hi THEN GapRising(CloseEntry(x), c) ELSE GapEnd(x, c)

StateGap(x, c) == GapSample(Counted(x), c)

OokStateMachine(x, c) ==
    CASE x.d.ook_state = PD_OOK_STATE_IDLE      -> StateIdle(x, c)
      [] x.d.ook_state = PD_OOK_STATE_PULSE     -> StatePulse(x, c)
      [] x.d.ook_state = PD_OOK_STATE_GAP_START -> StateGapStart(x, c)
      [] x.d.ook_state = PD_OOK_STATE_GAP       -> StateGap(x, c)
      [] OTHER -> [x EXCEPT !.d.ook_state = PD_OOK_STATE_IDLE]

\* --------------------------------------------------- configuration
\* DB_TO_MAG(x) = (int)10^((x + 84.2884) / 20), tabulated at the levels used.
DB_TO_MAG(db) ==
    CASE db = 0 -> 16384
      [] db = -6 -> 8211
      [] db = -12 -> 4047
      [] OTHER -> 0

\* DB_TO_MAG_F(9.0) = 2.82 stored into int ook_high_low_ratio.
DB_TO_MAG_F(db) ==
    CASE db = 9 -> 2
      [] OTHER -> 1

pulse_detect_set_levels(d, use_mag_est, fixed_high_level, min_high_level, high_low_ratio) ==
    IF use_mag_est # 0
    THEN [d EXCEPT
            !.use_mag_est = use_mag_est,
            !.ook_fixed_high_level =
                IF fixed_high_level < 0 THEN DB_TO_MAG(fixed_high_level) ELSE 0,
            !.ook_min_high_level = DB_TO_MAG(min_high_level),
            !.ook_high_low_ratio = DB_TO_MAG_F(high_low_ratio)]
    ELSE [d EXCEPT
            !.use_mag_est = use_mag_est,
            !.ook_fixed_high_level =
                IF fixed_high_level < 0 THEN DB_TO_AMP(fixed_high_level) ELSE 0,
            !.ook_min_high_level = DB_TO_AMP(min_high_level),
            !.ook_high_low_ratio = DB_TO_AMP_F(high_low_ratio)]

\* calloc, the default levels, the filters; the peak follower is switched on.
pulse_detect_create ==
    pulse_detect_set_levels(
        [use_mag_est |-> 0, ook_fixed_high_level |-> 0, ook_min_high_level |-> 0,
         ook_high_low_ratio |-> 0,
         ook_state |-> PD_OOK_STATE_IDLE, pulse_length |-> 0, max_pulse |-> 0,
         data_counter |-> 0, lead_in_counter |-> 0,
         ook_low_estimate |-> 0, ook_high_estimate |-> 0,
         pulse_detect_fsk |-> pulse_detect_fsk_init,
         median_filter |-> median_filter_create(MedianWindow),
         peak_follower |-> peak_follower_create(MIN_DB),
         peak_follower_fm |-> peak_follower_create(MIN_DB),
         use_peak_follower |-> 1],
        0, 0, -12, 9)

\* ------------------------------------------------- one loop iteration
\* The conditioned sample, the thresholds it is compared against, and the
\* decoded outputs.
Conditioned(d, am_n, fm_n, thr, oa, of) ==
    [d |-> d, am_n |-> am_n, fm_n |-> fm_n, hi |-> thr.hi, lo |-> thr.lo,
     out_am |-> oa, out_fm |-> of]

\* The digital AM and FM signals are extracted.
Decoded(d, am_n, fm_n, thr, thr_fm, oa, o_fm) ==
    Conditioned(d, am_n, fm_n, thr, oa, DecodeFm(o_fm, fm_n, thr_fm, oa))

\* Peak-follower mode: thresholds from the followers' high peaks and the
\* lows the followers never write; am_n is zeroed without a valid signal.
Followed(d, smp, o_am, o_fm, mf, pa, pfm) ==
    Decoded([d EXCEPT !.median_filter = mf.values,
                      !.peak_follower = pa.follower,
                      !.peak_follower_fm = pfm.follower],
            IF pa.high_peak = 0 THEN 0 ELSE mf.out,
            smp.fm,
            PeakThresholds(pa.high_peak, smp.lo_am),
            PeakThresholds(pfm.high_peak, smp.lo_fm),
            DecodeAm(o_am, IF pa.high_peak = 0 THEN 0 ELSE mf.out,
                     PeakThresholds(pa.high_peak, smp.lo_am)),
            o_fm)

\* The sample after the median filter.
Smoothed(d, smp, o_am, o_fm, mf) ==
    IF d.use_peak_follower # 0
    THEN Followed(d, smp, o_am, o_fm, mf,
                  peak_follower_process(d.peak_follower, mf.out),
                  peak_follower_process(d.peak_follower_fm, smp.fm))
    ELSE Conditioned([d EXCEPT !.median_filter = mf.values], mf.out, smp.fm,
                     ClassicThresholds(d), o_am, o_fm)

\* smp = [am, fm, lo_am, lo_fm, flip]: the raw samples, the values the two
\* uninitialised lows hold, and the sub-detector's decision.
Condition(d, smp, o_am, o_fm) ==
    Smoothed(d, smp, o_am, o_fm, median_filter_process(d.median_filter, smp.am))

\* (mutant) data_counter advances before the function returns.
AdvanceThenReturn(x, cnd) ==
    [x |-> [x EXCEPT !.d.data_counter = @ + 1],
     am_n |-> cnd.am_n, hi |-> cnd.hi, lo |-> cnd.lo,
     out_am |-> cnd.out_am, out_fm |-> cnd.out_fm]

\* s->data_counter += 1 unless the function returns.
Advance(x, cnd) ==
    [x |-> IF x.ret = 0 THEN [x EXCEPT !.d.data_counter = @ + 1] ELSE x,
     am_n |-> cnd.am_n, hi |-> cnd.hi, lo |-> cnd.lo,
     out_am |-> cnd.out_am, out_fm |-> cnd.out_fm]

\* The state machine on the conditioned sample.
Switch(cnd, p, f, fr, smp, ob) ==
    Advance(OokStateMachine(
                [d |-> cnd.d, p |-> p, f |-> f, eop |-> fr.eop_on_spurious,
                 ret |-> 0, full |-> FALSE, oob |-> ob, fed |-> FALSE],
                [am_n |-> cnd.am_n, fm_n |-> cnd.fm_n, hi |-> cnd.hi, lo |-> cnd.lo,
                 len |-> fr.len, samp_rate |-> fr.samp_rate,
                 sample_offset |-> fr.sample_offset, fpdm |-> fr.fpdm,
                 flip |-> smp.flip]),
            cnd)

\* The body of the while loop.
LoopBody(d, p, f, fr, smp, o_am, o_fm, ob) ==
    Switch(Condition(d, smp, o_am, o_fm), p, f, fr, smp, ob)

\* -------------------------------------------------------------- state
Inst == {1, 2}

VARIABLES
    det,         \* det[i]: struct pulse_detect of detector i
    pulses,      \* pulses[i]: the caller's OOK record
    fsk_pulses,  \* fsk_pulses[i]: the caller's FSK record
    frame,       \* frame[i]: the call in progress or last returned
    out_am,      \* static out_am of pulse_detect_package
    out_fm,      \* static out_fm of pulse_detect_package
    stream,      \* samples read and still to be read by some detector
    base,        \* absolute index of stream[1]
    last_fed,    \* last_fed[i]: highest index of this buffer fed so far
    oob,         \* oob[i]: a store fell outside pulse[] or gap[]
    pkgs,        \* pkgs[i]: the packages returned (kept when two detectors run)
    heard,       \* heard[i]: the pulse list read since a package could begin
    env,         \* the environment of the run: who runs, what the callers pass
    median,      \* a median filter of its own, with the inputs it was fed
    follower,    \* a peak follower of its own, as constructed
    blocker,     \* a DC blocker, with the samples it was fed
    writer,      \* a WAV dumper, with the samples it was sent
    wav_file     \* the file of the WAV dumper: header sizes and sample data

vars == <<det, pulses, fsk_pulses, frame, out_am, out_fm, stream, base,
          last_fed, oob, pkgs, heard, env, median, follower, blocker, writer,
          wav_file>>

\* The detectors, their records and their callers.
detectors == <<det, pulses, fsk_pulses, frame, out_am, out_fm, stream, base,
               last_fed, oob, pkgs, heard, env>>

\* The components that stand apart from the detectors.
parts == <<median, follower, blocker, writer, wav_file>>

\* No component is constructed.
NoObject == [status |-> "none"]

\* Detector 2 is fed the stream as one buffer.
BufLensFor(i) == IF i = 2 THEN {env.limit} ELSE env.lens

Pos(i) == frame[i].sample_offset + det[i].data_counter

\* Detectors that read one stream run in turn: the one that is behind steps,
\* detector 2 first; detectors on streams of their own run in any order.
Turn(i) ==
    /\ i \in env.run
    /\ env.shared =>
         \A j \in env.run : Pos(i) < Pos(j) \/ (Pos(i) = Pos(j) /\ i >= j)

\* What the state machine compared: the conditioned sample and thresholds.
Seen(r) == IF env.probe THEN <<r.am_n, r.hi, r.lo>> ELSE <<>>

\* How a conditioned sample reads against its thresholds.
Reading(am_n, hi, lo) ==
    IF am_n > hi /\ ~(am_n < lo) THEN "high"
    ELSE IF am_n < lo /\ ~(am_n > hi) THEN "low"
    ELSE "none"

\* The pulse list read so far: runs holds the lengths of the runs of high
\* and low readings in turn (pulse, gap, pulse, ...), the last one still
\* growing; rets counts the OOK packages returned since the list began.
NoList == [on |-> FALSE, runs |-> <<>>, rets |-> 0]

MaxGapSamples(samp_rate) == PD_MAX_GAP_MS * (samp_rate \div 1000)

PulseRuns(runs) == {runs[k] : k \in {j \in 1..Len(runs) : j % 2 = 1}}

MaxPulseRun(runs) == CHOOSE m \in PulseRuns(runs) : \A q \in PulseRuns(runs) : q <= m

\* A gap between two pulses of a list: not spurious, and below every limit
\* that ends a package.
InnerGap(g, runs, samp_rate) ==
    /\ g >= PD_MIN_PULSE_SAMPLES
    /\ ~(/\ g > PD_MAX_GAP_RATIO * MaxPulseRun(runs)
         /\ g > PD_MIN_GAP_MS * (samp_rate \div 1000))
    /\ g <= MaxGapSamples(samp_rate)

\* The silence after the list is long: its first sample ends the pulse and
\* the samples after that one outlast the longest gap.
Silent(h, samp_rate) ==
    /\ h.on
    /\ Len(h.runs) % 2 = 0
    /\ h.runs[Len(h.runs)] - 1 > MaxGapSamples(samp_rate)

\* A list begins on a high reading that begins a package.
Begun(rd, d) ==
    IF /\ rd = "high"
       /\ d.ook_state = PD_OOK_STATE_IDLE
       /\ LeadInDone(d.lead_in_counter)
    THEN [on |-> TRUE, runs |-> <<1>>, rets |-> 0]
    ELSE NoList

Returned(h, ret) ==
    IF h.on /\ ret = PULSE_DATA_OOK THEN [h EXCEPT !.rets = @ + 1] ELSE h

\* The reading changes level: the run that ends must be a pulse of the
\* list or a gap between two of fewer than PD_MAX_PULSES pulses.
NextRun(h, rd, d, samp_rate) ==
    IF Len(h.runs) % 2 = 1
    THEN IF h.runs[Len(h.runs)] >= PD_MIN_PULSE_SAMPLES
         THEN [h EXCEPT !.runs = Append(@, 1)]
         ELSE NoList
    ELSE IF /\ InnerGap(h.runs[Len(h.runs)], h.runs, samp_rate)
            /\ Len(h.runs) \div 2 + 1 < PD_MAX_PULSES
         THEN [h EXCEPT !.runs = Append(@, 1)]
         ELSE Begun(rd, d)

\* The list after one more reading by a detector in state d.
Track(h, rd, d, samp_rate, ret) ==
    IF ~h.on THEN Begun(rd, d)
    ELSE IF Silent(h, samp_rate)
    THEN IF rd = "low" THEN Returned(h, ret) ELSE Begun(rd, d)
    ELSE IF rd = "none" THEN NoList
    ELSE IF (Len(h.runs) % 2 = 1) = (rd = "high")
    THEN Returned([h EXCEPT !.runs[Len(h.runs)] = @ + 1], ret)
    ELSE Returned(NextRun(h, rd, d, samp_rate), ret)

\* held: a package was returned and no later package has begun; began: the
\* position and the sample rate of the call at the last IDLE to PULSE step;
\* rose: the position of the rising sample of the pulse being measured, and
\* whether a short gap was absorbed in it;
\* fed: the FSK sub-detector was fed on the last sample; cleared: the package
\* that began last found the sub-detector used and re-initialised it;
\* calls: the number of calls made on the current buffer; entered: the value
\* of data_counter the call in progress was entered with;
\* wrote: the decoded AM and FM samples last written to the debug sinks;
\* alone: what out_am and out_fm hold for a detector that is the only one;
\* same: the detector and its records are those of a detector that is the
\* only one.
NewFrame ==
    [pc |-> "caller", len |-> 0, samp_rate |-> 0, sample_offset |-> 0,
     fpdm |-> FSK_PULSE_DETECT_OLD, eop_on_spurious |-> 0, ret |-> 0,
     full |-> FALSE, seen |-> <<>>, held |-> FALSE,
     began |-> [offset |-> 0, samp_rate |-> 0],
     rose |-> [at |-> 0, mended |-> FALSE],
     fed |-> FALSE, cleared |-> FALSE, calls |-> 0, entered |-> 0,
     wrote |-> <<0, 0>>, alone |-> <<0, 0>>, same |-> TRUE]

InitWith(e) ==
    /\ det = [i \in Inst |-> pulse_detect_create]
    /\ pulses = [i \in Inst |-> NewPulseData]
    /\ fsk_pulses = [i \in Inst |-> NewPulseData]
    /\ frame = [i \in Inst |-> NewFrame]
    /\ out_am = 0
    /\ out_fm = 0
    /\ stream = <<>>
    /\ base = 0
    /\ last_fed = [i \in Inst |-> -1]
    /\ oob = [i \in Inst |-> FALSE]
    /\ pkgs = [i \in Inst |-> <<>>]
    /\ heard = [i \in Inst |-> NoList]
    /\ env = e
    /\ median = NoObject
    /\ follower = NoObject
    /\ blocker = NoObject
    /\ writer = NoObject
    /\ wav_file = NoObject

\* A short stream where everything varies: the samples, the values the
\* uninitialised lows hold, the buffer lengths, the FSK mode and decisions.
Init ==
    InitWith([run |-> {1}, am |-> AmSamples, low |-> UninitInt16,
              lens |-> {1, 4, ShortRun}, limit |-> ShortRun,
              modes |-> {FSK_PULSE_DETECT_OLD, FSK_PULSE_DETECT_NEW},
              flips |-> BOOLEAN, probe |-> FALSE, levels |-> {}, rates |-> SampRates, shared |-> TRUE])

\* A long two-level signal: the lows read 0, so the thresholds sit between
\* silence and the carrier; buffers of four samples or the whole stream.
InitSignal ==
    InitWith([run |-> {1}, am |-> AmSamples, low |-> {0},
              lens |-> {4, MaxSamples}, limit |-> MaxSamples,
              modes |-> {FSK_PULSE_DETECT_OLD}, flips |-> {FALSE},
              probe |-> TRUE, levels |-> {}, rates |-> SampRates, shared |-> TRUE])

\* A long constant carrier: what the uninitialised lows hold decides whether
\* a sample reads above or below the thresholds; buffers of four samples or
\* the whole stream.
InitGarbage ==
    InitWith([run |-> {1}, am |-> {20000}, low |-> {0, 32767},
              lens |-> {4, MaxSamples}, limit |-> MaxSamples,
              modes |-> {FSK_PULSE_DETECT_OLD}, flips |-> {FALSE},
              probe |-> TRUE, levels |-> {}, rates |-> SampRates, shared |-> TRUE])

\* (mutant) The record is not aged.
AgedNever(p, data_counter, len) == p

\* (mutant) The record is aged on every entry.
AgedAlways(p, data_counter, len) == [p EXCEPT !.start_ago = @ + len]

\* The record is aged by the buffer length when a buffer is entered at its
\* first sample.
Aged(p, data_counter, len) ==
    IF data_counter = 0 THEN [p EXCEPT !.start_ago = @ + len] ELSE p

\* Entry of pulse_detect_package: a fresh buffer after a return of 0, the
\* same buffer again after a package.
Call(i) ==
    /\ Turn(i)
    /\ frame[i].pc = "caller"
    /\ frame[i].calls <= env.limit + 1
    /\ \E len \in BufLensFor(i), rate \in env.rates, fpdm \in env.modes :
         /\ IF frame[i].ret # 0
            THEN len = frame[i].len
            ELSE frame[i].sample_offset + len <= env.limit
         /\ frame' = [frame EXCEPT ![i] =
                        [@ EXCEPT !.pc = "loop", !.len = len, !.samp_rate = rate,
                                  !.fpdm = fpdm, !.eop_on_spurious = 0,
                                  !.calls = IF frame[i].ret # 0 THEN @ + 1 ELSE 1,
                                  !.entered = det[i].data_counter]]
         /\ det' = [det EXCEPT ![i].ook_high_estimate =
                                   MAX(@, det[i].ook_min_high_level)]
         /\ pulses' = [pulses EXCEPT ![i] = Aged(@, det[i].data_counter, len)]
         /\ fsk_pulses' = [fsk_pulses EXCEPT ![i] =
                             Aged(@, det[i].data_counter, len)]
         /\ last_fed' = [last_fed EXCEPT ![i] = IF frame[i].ret # 0 THEN @ ELSE -1]
    /\ UNCHANGED <<out_am, out_fm, stream, base, oob, pkgs, heard, env>>
    /\ UNCHANGED parts

\* The lowest position of the running detectors once detector i is at pos.
LowestPos(i, pos) ==
    CHOOSE m \in {IF j = i THEN pos ELSE Pos(j) : j \in env.run} :
        \A j \in env.run : m <= (IF j = i THEN pos ELSE Pos(j))

\* The samples of str (which starts at b) from position low on.
Trim(str, b, low) == SubSeq(str, low - b + 1, Len(str))

\* What a caller keeps of a returned package.
Package(code, p) ==
    [code |-> code, num_pulses |-> p.num_pulses, pulse |-> p.pulse, gap |-> p.gap,
     offset |-> p.offset]

\* The sample at the detector's position is the one read there before.
Reads(i, smp) ==
    (env.shared /\ Pos(i) - base + 1 <= Len(stream)) =>
        /\ smp.am = stream[Pos(i) - base + 1].am
        /\ smp.fm = stream[Pos(i) - base + 1].fm

\* The stream with the sample just read.
Extended(i, smp) ==
    IF ~env.shared \/ Pos(i) - base + 1 <= Len(stream)
    THEN stream
    ELSE Append(stream, [am |-> smp.am, fm |-> smp.fm])

\* The machine took the IDLE to PULSE step that begins a package.
Begins(d, after) ==
    d.ook_state = PD_OOK_STATE_IDLE /\ after.ook_state = PD_OOK_STATE_PULSE

\* The call's frame after an iteration that leaves the detector in after.
Framed(fr, d, after) ==
    IF Begins(d, after)
    THEN [fr EXCEPT !.held = FALSE,
                    !.began = [offset |-> fr.sample_offset + d.data_counter,
                               samp_rate |-> fr.samp_rate],
                    !.rose = [at |-> fr.sample_offset + d.data_counter,
                              mended |-> FALSE],
                    !.cleared = d.pulse_detect_fsk # pulse_detect_fsk_init]
    ELSE IF /\ d.ook_state = PD_OOK_STATE_GAP
            /\ after.ook_state = PD_OOK_STATE_PULSE
    THEN [fr EXCEPT !.rose = [at |-> fr.sample_offset + d.data_counter,
                              mended |-> FALSE]]
    ELSE IF /\ d.ook_state = PD_OOK_STATE_GAP_START
            /\ after.ook_state = PD_OOK_STATE_PULSE
    THEN [fr EXCEPT !.rose.mended = TRUE]
    ELSE fr

\* What the iteration writes to the sinks, and what it does alone (ra).
Sunk(fr, r, ra) ==
    [fr EXCEPT !.fed = r.x.fed,
               !.wrote = <<r.out_am, r.out_fm>>,
               !.alone = <<ra.out_am, ra.out_fm>>,
               !.same = @ /\ ra.x = r.x]

\* The iteration's effects are stored.
Commit(i, smp, r, ra) ==
    /\ det' = [det EXCEPT ![i] = r.x.d]
    /\ pulses' = [pulses EXCEPT ![i] = r.x.p]
    /\ fsk_pulses' = [fsk_pulses EXCEPT ![i] = r.x.f]
    /\ oob' = [oob EXCEPT ![i] = r.x.oob]
    /\ out_am' = r.out_am
    /\ out_fm' = r.out_fm
    /\ frame' = [frame EXCEPT ![i] =
                   IF r.x.ret = 0
                   THEN [Sunk(Framed(@, det[i], r.x.d), r, ra) EXCEPT
                            !.eop_on_spurious = r.x.eop, !.full = FALSE,
                            !.seen = Seen(r)]
                   ELSE [Sunk(@, r, ra) EXCEPT
                                  !.pc = "caller", !.ret = r.x.ret, !.full = r.x.full,
                                  !.eop_on_spurious = 0, !.seen = Seen(r),
                                  !.held = TRUE]]
    /\ stream' = IF env.shared
                 THEN Trim(Extended(i, smp), base,
                           LowestPos(i, frame[i].sample_offset + r.x.d.data_counter))
                 ELSE stream
    /\ base' = IF env.shared
               THEN LowestPos(i, frame[i].sample_offset + r.x.d.data_counter)
               ELSE base
    /\ last_fed' = [last_fed EXCEPT ![i] = MAX(@, det[i].data_counter)]
    /\ pkgs' = [pkgs EXCEPT ![i] =
                  IF r.x.ret # 0 /\ Cardinality(env.run) > 1
                  THEN Append(@, Package(r.x.ret,
                          IF r.x.ret = PULSE_DATA_FSK THEN r.x.f ELSE r.x.p))
                  ELSE @]
    /\ heard' = [heard EXCEPT ![i] =
                   IF env.probe
                   THEN Track(@, Reading(r.am_n, r.hi, r.lo), det[i],
                              frame[i].samp_rate, r.x.ret)
                   ELSE @]
    /\ UNCHANGED <<env, parts>>

\* One iteration of the while loop on the sample at data_counter.
ProcessSample(i) ==
    /\ Turn(i)
    /\ frame[i].pc = "loop"
    /\ det[i].data_counter < frame[i].len
    /\ \E am \in env.am, fm \in FmSamples, lo_am \in env.low, lo_fm \in env.low,
          flip \in env.flips :
         /\ Reads(i, [am |-> am, fm |-> fm])
         /\ Commit(i, [am |-> am, fm |-> fm],
                   LoopBody(det[i], pulses[i], fsk_pulses[i], frame[i],
                            [am |-> am, fm |-> fm, lo_am |-> lo_am,
                             lo_fm |-> lo_fm, flip |-> flip],
                            out_am, out_fm, oob[i]),
                   LoopBody(det[i], pulses[i], fsk_pulses[i], frame[i],
                            [am |-> am, fm |-> fm, lo_am |-> lo_am,
                             lo_fm |-> lo_fm, flip |-> flip],
                            IF env.shared THEN out_am ELSE frame[i].alone[1],
                            IF env.shared THEN out_fm ELSE frame[i].alone[2],
                            oob[i]))

\* The loop ends: the buffer is consumed and 0 is returned.
OutOfData(i) ==
    /\ Turn(i)
    /\ frame[i].pc = "loop"
    /\ det[i].data_counter >= frame[i].len
    /\ det' = [det EXCEPT ![i].data_counter = 0]
    /\ frame' = [frame EXCEPT ![i] =
                   [@ EXCEPT !.pc = "caller", !.ret = 0, !.eop_on_spurious = 0,
                             !.full = FALSE,
                             !.sample_offset = @ + frame[i].len]]
    /\ UNCHANGED <<pulses, fsk_pulses, out_am, out_fm, stream, base, last_fed,
                   oob, pkgs, heard, env>>
    /\ UNCHANGED parts

Next == \E i \in Inst : Call(i) \/ ProcessSample(i) \/ OutOfData(i)

Spec == Init /\ [][Next]_vars

SpecSignal == InitSignal /\ [][Next]_vars

SpecGarbage == InitGarbage /\ [][Next]_vars

\* Two detectors on one stream: detector 1 is called with buffers of one
\* or four samples, detector 2 with the whole stream as one buffer.
InitSplit ==
    InitWith([run |-> {1, 2}, am |-> AmSamples, low |-> {0},
              lens |-> {1, 4}, limit |-> MaxSamples,
              modes |-> {FSK_PULSE_DETECT_OLD}, flips |-> {FALSE},
              probe |-> FALSE, levels |-> {}, rates |-> SampRates, shared |-> TRUE])

SpecSplit == InitSplit /\ [][Next]_vars

\* The levels are set between calls, in amplitude or magnitude mode.
InitLevels ==
    InitWith([run |-> {1}, am |-> AmSamples, low |-> {0},
              lens |-> {1, 4, ShortRun}, limit |-> ShortRun,
              modes |-> {FSK_PULSE_DETECT_OLD}, flips |-> {FALSE},
              probe |-> TRUE, levels |-> {-12, -6, 0}, rates |-> SampRates, shared |-> TRUE])

\* pulse_detect_set_levels, called between two calls of the detector.
SetLevels(i) ==
    /\ i \in env.run
    /\ frame[i].pc = "caller"
    /\ \E use_mag_est \in {0, 1}, fixed_high_level \in env.levels :
         det' = [det EXCEPT ![i] =
                   pulse_detect_set_levels(@, use_mag_est, fixed_high_level, -12, 9)]
    /\ frame' = [frame EXCEPT ![i].seen = <<>>]
    /\ UNCHANGED <<pulses, fsk_pulses, out_am, out_fm, stream, base, last_fed,
                   oob, pkgs, heard, env>>
    /\ UNCHANGED parts

NextLevels ==
    \E i \in Inst : Call(i) \/ ProcessSample(i) \/ OutOfData(i) \/ SetLevels(i)

SpecLevels == InitLevels /\ [][NextLevels]_vars

\* The sample rates a caller passes, one call after the other.
CallRates == {1000, 2000}

\* A short two-level signal in buffers of one or four samples, each call
\* with a sample rate of its own.
InitRates ==
    InitWith([run |-> {1}, am |-> AmSamples, low |-> {0},
              lens |-> {1, 4}, limit |-> RatesRun,
              modes |-> {FSK_PULSE_DETECT_OLD}, flips |-> {FALSE},
              probe |-> FALSE, levels |-> {}, rates |-> CallRates, shared |-> TRUE])

SpecRates == InitRates /\ [][Next]_vars

\* Two detectors, each on a stream of its own and with records of its own,
\* called in any order, each with its stream in one buffer.
InitPair ==
    InitWith([run |-> {1, 2}, am |-> AmSamples, low |-> {0},
              lens |-> {PairRun}, limit |-> PairRun,
              modes |-> {FSK_PULSE_DETECT_OLD}, flips |-> {FALSE},
              probe |-> FALSE, levels |-> {}, rates |-> SampRates,
              shared |-> FALSE])

SpecPair == InitPair /\ [][Next]_vars

\* A two-level signal long enough for a second pulse, with both FSK modes
\* and a sub-detector free to close a subpulse on any sample it is fed.
InitFsk ==
    InitWith([run |-> {1}, am |-> AmSamples, low |-> {0},
              lens |-> {4, FskRun}, limit |-> FskRun,
              modes |-> {FSK_PULSE_DETECT_OLD, FSK_PULSE_DETECT_NEW},
              flips |-> BOOLEAN, probe |-> TRUE, levels |-> {},
              rates |-> SampRates, shared |-> TRUE])

SpecFsk == InitFsk /\ [][Next]_vars

\* ProcessSample(i) is enabled.
Sampling(i) ==
    /\ Turn(i)
    /\ frame[i].pc = "loop"
    /\ det[i].data_counter < frame[i].len

\* The loop of a call runs to its end, nothing in it waits: weak fairness
\* of OutOfData(i) and of ProcessSample(i), the latter with its enabling
\* condition written out.
SpecProgress ==
    /\ InitFsk
    /\ [][Next]_vars
    /\ \A i \in Inst : WF_vars(OutOfData(i))
    /\ \A i \in Inst : []<>(~Sampling(i)) \/ []<><<ProcessSample(i)>>_vars

\* ------------------------------------------------------- construction
\* The window sizes, the rates (<<numerator, denominator>>) and the floors
\* the constructors are called with.
WindowSizes == {-1, 0, 1, 2, 3, 4}

\* A run in which no detector is called; windows: the window sizes the
\* median filter is constructed with.
Bench ==
    [run |-> {}, am |-> {}, low |-> {}, lens |-> {}, limit |-> 0, modes |-> {},
     flips |-> {}, probe |-> FALSE, levels |-> {}, rates |-> {}, shared |-> TRUE,
     windows |-> WindowSizes]

Rates == {<<-1, 2>>, <<0, 1>>, <<1, 20>>, <<1, 1>>, <<3, 2>>}

MinDbs == {-20, 0, 6}

\* How median_filter_create ends: with a positive window the arrays are
\* allocated and the filter returned; with a window of 0 malloc(0) returns
\* NULL or not, and with a negative one the size wraps and malloc fails:
\* the assert aborts, or, compiled out, lets the filter be returned.
Outcomes(window_size) ==
    IF window_size > 0 THEN {"created"} ELSE {"created", "aborted"}

\* median_filter_create(window_size)
MedianCreate ==
    /\ median = NoObject
    /\ \E window_size \in env.windows :
         \E status \in Outcomes(window_size) :
            median' = [status      |-> status,
                       window_size |-> window_size,
                       values      |-> median_filter_create(window_size),
                       fed         |-> <<>>,
                       out         |-> 0]
    /\ UNCHANGED <<follower, blocker, writer, wav_file>>
    /\ UNCHANGED detectors

\* peak_follower_create(attack_rate, release_rate, mindB)
FollowerCreate ==
    /\ follower = NoObject
    /\ \E attack_rate \in Rates, release_rate \in Rates, mindB \in MinDbs :
         follower' = [status |-> "created",
                      mindB  |-> mindB,
                      made   |-> PeakFollowerCreated(attack_rate, release_rate,
                                                     mindB)]
    /\ UNCHANGED <<median, blocker, writer, wav_file>>
    /\ UNCHANGED detectors

NextCreate == MedianCreate \/ FollowerCreate

InitCreate == InitWith(Bench)

SpecCreate == InitCreate /\ [][NextCreate]_vars

\* ------------------------------------------------- the peak follower
\* The samples and the number of calls of a follower.
FollowerSamples == {-20000, 0, 200, 20000}

FollowerCalls == 4

\* The follower as pulse_detect_create makes it.  high_peak and low_peak
\* are the caller's two output variables, which it does not initialise.
FollowerMake ==
    /\ follower = NoObject
    /\ \E mindB \in MinDbs, high \in UninitInt16, low \in UninitInt16 :
         follower' = [status    |-> "created",
                      mindB     |-> mindB,
                      made      |-> PeakFollowerCreated(<<AttackNum, AttackDen>>,
                                                        <<ReleaseNum, ReleaseDen>>,
                                                        mindB),
                      calls     |-> 0,
                      high_peak |-> high,
                      low_peak  |-> low]
    /\ UNCHANGED <<median, blocker, writer, wav_file>>
    /\ UNCHANGED detectors

\* peak_follower_process(follower, sample, &high_peak, &low_peak): the
\* caller's variables are declared anew for every sample, so low_peak,
\* which the function does not write, holds any value.
FollowerProcess ==
    /\ follower.status = "created"
    /\ follower.calls < FollowerCalls
    /\ \E sample \in FollowerSamples, low \in UninitInt16 :
         follower' = [follower EXCEPT
                        !.made.follower =
                            peak_follower_process(follower.made.follower, sample).follower,
                        !.high_peak =
                            peak_follower_process(follower.made.follower, sample).high_peak,
                        !.low_peak = low,
                        !.calls = @ + 1]
    /\ UNCHANGED <<median, blocker, writer, wav_file>>
    /\ UNCHANGED detectors

InitFollower == InitWith(Bench)

NextFollower == FollowerMake \/ FollowerProcess

SpecFollower == InitFollower /\ [][NextFollower]_vars

\* ------------------------------------------------ the median filter
\* The odd windows, the samples and the number of calls of a filter.
OddWindows == {1, 3, 5}

MedianSamples == {-32768, -1, 0, 32767}

MedianCalls == 5

\* median_filter_process(filter, sample); fed keeps the inputs in order.
MedianProcess ==
    /\ median.status = "created"
    /\ Len(median.fed) < MedianCalls
    /\ \E sample \in MedianSamples :
         median' = [median EXCEPT
                      !.values = median_filter_process(median.values, sample).values,
                      !.out    = median_filter_process(median.values, sample).out,
                      !.fed    = Append(@, sample)]
    /\ UNCHANGED <<follower, blocker, writer, wav_file>>
    /\ UNCHANGED detectors

InitMedian == InitWith([Bench EXCEPT !.windows = OddWindows])

NextMedian == MedianCreate \/ MedianProcess

SpecMedian == InitMedian /\ [][NextMedian]_vars

\* --------------------------------------------------- the DC blocker
\* The ring lengths, the samples and the number of calls of a blocker.
BlockerLengths == {1, 2, 3}

BlockerSamples == {-32768, -1, 0, 32767}

BlockerCalls == 6

\* dc_blocker_create(buffer_length)
BlockerCreate ==
    /\ blocker = NoObject
    /\ \E buffer_length \in BlockerLengths :
         blocker' = [status |-> "created",
                     self   |-> dc_blocker_create(buffer_length),
                     fed    |-> <<>>,
                     out    |-> 0]
    /\ UNCHANGED <<median, follower, writer, wav_file>>
    /\ UNCHANGED detectors

\* dc_blocker_filter(self, sample); fed keeps the samples in order.
BlockerFilter ==
    /\ blocker.status = "created"
    /\ Len(blocker.fed) < BlockerCalls
    /\ \E sample \in BlockerSamples :
         blocker' = [blocker EXCEPT
                       !.self = dc_blocker_filter(blocker.self, sample).blocker,
                       !.out  = dc_blocker_filter(blocker.self, sample).out,
                       !.fed  = Append(@, sample)]
    /\ UNCHANGED <<median, follower, writer, wav_file>>
    /\ UNCHANGED detectors

InitBlocker == InitWith(Bench)

NextBlocker == BlockerCreate \/ BlockerFilter

SpecBlocker == InitBlocker /\ [][NextBlocker]_vars

\* --------------------------------------------------- the WAV dumper
\* The buffer sizes, the samples and the number of samples of a dumper.
BufferSizes == {1, 2, 3}

WavSamples == {1, 2}

WavCalls == 5

\* wav_dumper_create(filename, sample_rate, buffer_size); sent keeps the
\* samples passed to the dumper, in order.
WavCreate ==
    /\ writer = NoObject
    /\ \E buffer_size \in BufferSizes :
         /\ writer' = [sent |-> <<>>] @@ wav_dumper_create(buffer_size).writer
         /\ wav_file' = wav_dumper_create(buffer_size).file
    /\ UNCHANGED <<median, follower, blocker>>
    /\ UNCHANGED detectors

\* wav_dumper_write_sample(writer, sample)
WavWrite ==
    /\ writer.status = "open"
    /\ Len(writer.sent) < WavCalls
    /\ \E sample \in WavSamples :
         /\ writer' = [wav_dumper_write_sample(writer, wav_file, sample).writer
                          EXCEPT !.sent = Append(@, sample)]
         /\ wav_file' = wav_dumper_write_sample(writer, wav_file, sample).file
    /\ UNCHANGED <<median, follower, blocker>>
    /\ UNCHANGED detectors

\* wav_dumper_destroy(&writer)
WavDestroy ==
    /\ writer.status = "open"
    /\ writer' = wav_dumper_destroy(writer, wav_file).writer
    /\ wav_file' = wav_dumper_destroy(writer, wav_file).file
    /\ UNCHANGED <<median, follower, blocker>>
    /\ UNCHANGED detectors

InitWav == InitWith(Bench)

NextWav == WavCreate \/ WavWrite \/ WavDestroy

SpecWav == InitWav /\ [][NextWav]_vars

\* ------------------------------------------------------------- claims
IsReturn(i, code) == frame[i].pc = "caller" /\ frame[i].ret = code

\* C1: whenever pulse_detect_package returns, pulses.num_pulses is at most
\* PD_MAX_PULSES, and no store to pulse[] or gap[] used an index outside
\* 0 .. PD_MAX_PULSES - 1.
C1_RecordBounded ==
    \A i \in env.run :
        /\ ~oob[i]
        /\ frame[i].pc = "caller" => pulses[i].num_pulses <= PD_MAX_PULSES

\* A package is returned because the record is full.
C1_Witness ==
    \E i \in env.run :
        /\ IsReturn(i, PULSE_DATA_OOK)
        /\ frame[i].full
        /\ pulses[i].num_pulses = PD_MAX_PULSES

\* C2: in every record returned with PULSE_DATA_OOK each pulse[k], k <
\* num_pulses, is at least PD_MIN_PULSE_SAMPLES, the entry closed when
\* eop_on_spurious ends the package included.
C2_ReturnedPulsesValid ==
    \A i \in env.run :
        IsReturn(i, PULSE_DATA_OOK) =>
            \A k \in 0..(pulses[i].num_pulses - 1) :
                InBounds(k) => pulses[i].pulse[k] >= PD_MIN_PULSE_SAMPLES

\* C4: within a buffer the samples are fed in increasing index order, each
\* once: the index the loop feeds next is one past the last index fed, also
\* in the call that follows a returned package.
C4_FedOnce ==
    \A i \in env.run :
        frame[i].pc = "loop" => det[i].data_counter = last_fed[i] + 1

\* C5: the function returns 0, PULSE_DATA_OOK or PULSE_DATA_FSK; 0 only
\* after the last sample of the buffer was processed, and then data_counter
\* is 0; a package with data_counter left at an index below len.
C5_ReturnValues ==
    \A i \in env.run :
        frame[i].pc = "caller" =>
            /\ frame[i].ret \in {0, PULSE_DATA_OOK, PULSE_DATA_FSK}
            /\ frame[i].ret = 0 =>
                   /\ det[i].data_counter = 0
                   /\ last_fed[i] = frame[i].len - 1
            /\ frame[i].ret # 0 =>
                   /\ det[i].data_counter < frame[i].len
                   /\ det[i].data_counter = last_fed[i]

\* A package is returned in the middle of a buffer.
C5_Witness ==
    \E i \in env.run :
        /\ frame[i].pc = "caller"
        /\ frame[i].ret # 0
        /\ det[i].data_counter > 0
        /\ det[i].data_counter < frame[i].len
        /\ det[i].data_counter = last_fed[i]

\* C9: a new detector is idle and returns no package for the first
\* OOK_EST_LOW_RATIO + 1 samples whatever their values; lead_in_counter
\* never decreases (package boundaries included) and never exceeds
\* OOK_EST_LOW_RATIO + 1.
C9_LeadIn ==
    [][\A i \in env.run :
         /\ det'[i].lead_in_counter >= det[i].lead_in_counter
         /\ det'[i].lead_in_counter <= OOK_EST_LOW_RATIO + 1
         /\ frame'[i].sample_offset + det'[i].data_counter <= OOK_EST_LOW_RATIO + 1 =>
                /\ det'[i].ook_state = PD_OOK_STATE_IDLE
                /\ frame'[i].ret = 0]_vars

\* The lead-in ends with the detector idle although the carrier was on.
C9_Witness ==
    \E i \in env.run :
        /\ Pos(i) = OOK_EST_LOW_RATIO + 1
        /\ det[i].lead_in_counter = OOK_EST_LOW_RATIO + 1
        /\ det[i].peak_follower.current_high_peak > 0
        /\ det[i].ook_state = PD_OOK_STATE_IDLE

\* Two packages agree in what the caller reads of them.
SamePackage(a, b) ==
    /\ a.code = b.code
    /\ a.num_pulses = b.num_pulses
    /\ a.offset = b.offset
    /\ \A k \in 0..(a.num_pulses - 1) :
           InBounds(k) => a.pulse[k] = b.pulse[k] /\ a.gap[k] = b.gap[k]

\* C3: a stream fed as one buffer and the same stream split into several
\* buffers yield the same sequence of packages: the same codes, num_pulses,
\* pulse widths, gap widths and offsets, also when a spurious pulse ends the
\* package on the last sample of a buffer.
C3_SplitEquivalence ==
    /\ \A k \in 1..MIN(Len(pkgs[1]), Len(pkgs[2])) :
           SamePackage(pkgs[1][k], pkgs[2][k])
    /\ Pos(1) = Pos(2) /\ frame[1].pc = "caller" /\ frame[2].pc = "caller"
           => Len(pkgs[1]) = Len(pkgs[2])

\* The list read by detector i is complete: its silence is long.
ListEnded(i) == Silent(heard[i], frame[i].samp_rate)

\* One package was returned for the list read by detector i, and it holds
\* the list's pulses and inner gaps in order.
ListReturned(i) ==
    /\ heard[i].rets = 1
    /\ pulses[i].num_pulses = Len(heard[i].runs) \div 2
    /\ \A k \in 0..(Len(heard[i].runs) \div 2 - 1) :
           pulses[i].pulse[k] = heard[i].runs[2 * k + 1]
    /\ \A k \in 0..(Len(heard[i].runs) \div 2 - 2) :
           pulses[i].gap[k] = heard[i].runs[2 * k + 2]

\* Every gap between two pulses of the list lasts more than
\* PD_MIN_PULSE_SAMPLES samples.
GapsOverMin(i) ==
    \A k \in 1..(Len(heard[i].runs) \div 2 - 1) :
        heard[i].runs[2 * k] > PD_MIN_PULSE_SAMPLES

\* C6 as stated: with clean readings and the lead-in over, a list of
\* n < PD_MAX_PULSES pulses and gaps of at least PD_MIN_PULSE_SAMPLES
\* samples each (the gaps below every end-of-package limit), followed by a
\* long silence, comes back as exactly one PULSE_DATA_OOK with
\* num_pulses = n, the pulse widths and the inner gap widths in order.
C6_RoundTripFromMin ==
    \A i \in env.run : ListEnded(i) => ListReturned(i)

\* C6 amended: the same round trip for lists whose inner gaps last at least
\* PD_MIN_PULSE_SAMPLES + 1 samples (the pulses at least
\* PD_MIN_PULSE_SAMPLES).
C6_RoundTrip ==
    \A i \in env.run : ListEnded(i) /\ GapsOverMin(i) => ListReturned(i)

\* A list of two pulses of different widths came back.
C6_Witness ==
    \E i \in env.run :
        /\ ListEnded(i)
        /\ GapsOverMin(i)
        /\ Len(heard[i].runs) = 4
        /\ heard[i].runs[1] # heard[i].runs[3]
        /\ ListReturned(i)

\* C7: when a rising edge in GAP fills the record, PULSE_DATA_OOK is
\* returned with num_pulses = PD_MAX_PULSES and the machine idle; the next
\* call begins a new package on that rising sample: the records are cleared
\* and offset is the sample's index.
C7_OverflowRestarts ==
    [][\A i \in env.run :
         /\ IsReturn(i, PULSE_DATA_OOK)' /\ frame'[i].full =>
                /\ pulses'[i].num_pulses = PD_MAX_PULSES
                /\ det'[i].ook_state = PD_OOK_STATE_IDLE
         /\ frame[i].pc = "loop" /\ frame[i].full =>
                /\ det'[i].ook_state = PD_OOK_STATE_PULSE
                /\ pulses'[i].num_pulses = 0
                /\ pulses'[i].pulse = ZeroArray
                /\ pulses'[i].gap = ZeroArray
                /\ pulses'[i].offset = Pos(i)]_vars

\* C8: in GAP a sample at or below thr_hi that takes pulse_length over
\* PD_MAX_GAP_MS * samples_per_ms returns PULSE_DATA_OOK, with
\* num_pulses = 1 after a single pulse; when that bound is at least
\* PD_MIN_PULSE_SAMPLES no stored gap exceeds it by more than one.
C8_BoundedGap ==
    [][\A i \in env.run :
         MaxGapSamples(frame'[i].samp_rate) >= PD_MIN_PULSE_SAMPLES =>
           /\ det'[i].ook_state = PD_OOK_STATE_GAP =>
                  det'[i].pulse_length <= MaxGapSamples(frame'[i].samp_rate)
           /\ \A k \in 0..(pulses'[i].num_pulses - 1) :
                  InBounds(k) =>
                      pulses'[i].gap[k] <= MaxGapSamples(frame'[i].samp_rate) + 1
           /\ (/\ frame[i].pc = "loop"
               /\ det[i].data_counter < frame[i].len
               /\ det[i].ook_state = PD_OOK_STATE_GAP
               /\ frame'[i].seen[1] <= frame'[i].seen[2]
               /\ det[i].pulse_length + 1 > MaxGapSamples(frame[i].samp_rate))
              => /\ IsReturn(i, PULSE_DATA_OOK)'
                 /\ pulses[i].num_pulses = 0 => pulses'[i].num_pulses = 1]_vars

\* One pulse and a gap of PD_MAX_GAP_MS * samples_per_ms + 1 samples came
\* back as a package of one pulse.
C8_Witness ==
    \E i \in env.run :
        /\ IsReturn(i, PULSE_DATA_OOK)
        /\ MaxGapSamples(frame[i].samp_rate) >= PD_MIN_PULSE_SAMPLES
        /\ pulses[i].num_pulses = 1
        /\ pulses[i].pulse[0] >= PD_MIN_PULSE_SAMPLES
        /\ pulses[i].gap[0] = MaxGapSamples(frame[i].samp_rate) + 1

\* C10: after pulse_detect_set_levels with a negative fixed_high_level the
\* state machine compares the samples against the fixed level plus and
\* minus one eighth of it.
C10_FixedThresholds ==
    \A i \in env.run :
        frame[i].seen # <<>> /\ det[i].ook_fixed_high_level # 0 =>
            /\ frame[i].seen[2] =
                   det[i].ook_fixed_high_level + CDiv(det[i].ook_fixed_high_level, 8)
            /\ frame[i].seen[3] =
                   det[i].ook_fixed_high_level - CDiv(det[i].ook_fixed_high_level, 8)

\* The record without its age.
Ageless(p) == [p EXCEPT !.start_ago = 0]

\* The records of detector i are in the caller's hands over this step: a
\* package was returned and the step does not begin the next one.
HeldOver(i) == frame[i].held /\ frame'[i].held

\* C11 (as stated): after a non-zero return, calls leave every field of
\* pulses and fsk_pulses unchanged until the IDLE to PULSE step that begins
\* the next package.
C11_RecordsUntouched ==
    [][\A i \in env.run :
          HeldOver(i) =>
              /\ pulses'[i] = pulses[i]
              /\ fsk_pulses'[i] = fsk_pulses[i]]_vars

\* C11 (amended): after a non-zero return, calls leave every field of both
\* records but start_ago unchanged until the IDLE to PULSE step that begins
\* the next package; start_ago changes only on entry of a call made with
\* data_counter = 0, where it grows by that call's buffer length.
C11_RecordsAgedOnly ==
    [][\A i \in env.run :
          HeldOver(i) =>
              /\ Ageless(pulses'[i]) = Ageless(pulses[i])
              /\ Ageless(fsk_pulses'[i]) = Ageless(fsk_pulses[i])
              /\ IF frame[i].pc = "caller" /\ frame'[i].pc = "loop"
                    /\ det[i].data_counter = 0
                 THEN /\ pulses'[i].start_ago = pulses[i].start_ago + frame'[i].len
                      /\ fsk_pulses'[i].start_ago =
                             fsk_pulses[i].start_ago + frame'[i].len
                 ELSE /\ pulses'[i].start_ago = pulses[i].start_ago
                      /\ fsk_pulses'[i].start_ago = fsk_pulses[i].start_ago]_vars

\* A returned record is held while a later buffer is processed.
C11_Witness ==
    \E i \in env.run :
        /\ frame[i].held
        /\ frame[i].pc = "loop"
        /\ frame[i].ret = 0
        /\ det[i].data_counter > 0
        /\ pulses[i].num_pulses > 0
        /\ pulses[i].start_ago > frame[i].len

\* C12: in every record returned with PULSE_DATA_OOK, pulse[k] > 0 and
\* gap[k] > 0 for every k < num_pulses, the entries closed by an end of
\* package included.
C12_WidthsPositive ==
    \A i \in env.run :
        IsReturn(i, PULSE_DATA_OOK) =>
            \A k \in 0..(pulses[i].num_pulses - 1) :
                /\ Load(pulses[i].pulse, k) > 0
                /\ Load(pulses[i].gap, k) > 0

\* C13: in every returned package, pulses.offset and fsk_pulses.offset both
\* equal the sample_offset of the call in which the burst began plus the
\* buffer index of the sample that took the machine from IDLE to PULSE, and
\* both records carry that call's samp_rate, whatever calls came later.
C13_OffsetOfBurst ==
    \A i \in env.run :
        (frame[i].pc = "caller" /\ frame[i].ret # 0) =>
            /\ pulses[i].offset = frame[i].began.offset
            /\ fsk_pulses[i].offset = frame[i].began.offset
            /\ pulses[i].sample_rate = frame[i].began.samp_rate
            /\ fsk_pulses[i].sample_rate = frame[i].began.samp_rate

\* A package is returned by a later call than the one its burst began in,
\* past the first sample of its buffer, the two calls differing in rate.
C13_Witness ==
    \E i \in env.run :
        /\ frame[i].pc = "caller"
        /\ frame[i].ret # 0
        /\ frame[i].began.offset < frame[i].sample_offset
        /\ frame[i].began.offset % 4 # 0
        /\ frame[i].began.samp_rate # frame[i].samp_rate

\* Detector i processes a sample in PULSE that reads below thr_lo when the
\* pulse is shorter than PD_MIN_PULSE_SAMPLES.
SpuriousPulseStep(i) ==
    /\ frame[i].pc = "loop"
    /\ det[i].data_counter < frame[i].len
    /\ det[i].ook_state = PD_OOK_STATE_PULSE
    /\ det[i].pulse_length + 1 < PD_MIN_PULSE_SAMPLES
    /\ frame'[i].seen # <<>>
    /\ frame'[i].seen[1] < frame'[i].seen[3]

\* C20: a spurious pulse in PULSE sends the machine back to IDLE without a
\* package when no pulse is recorded yet (num_pulses = 0); in every other
\* case the package is ended: the machine goes to GAP with eop_on_spurious
\* set, from where PULSE_DATA_OOK is returned.
C20_SpuriousPulse ==
    [][\A i \in env.run :
          SpuriousPulseStep(i) =>
              IF pulses[i].num_pulses = 0
              THEN /\ det'[i].ook_state = PD_OOK_STATE_IDLE
                   /\ frame'[i].pc = "loop"
              ELSE /\ det'[i].ook_state = PD_OOK_STATE_GAP
                   /\ frame'[i].eop_on_spurious = 1
                   /\ pulses'[i].num_pulses = pulses[i].num_pulses]_vars

\* C14: two detectors with separate state and separate records, called in
\* any interleaving on disjoint streams, each produce what they produce
\* alone: the return codes and records, and the decoded AM and FM samples
\* written to the debug sinks.
C14_Independent ==
    \A i \in env.run :
        /\ frame[i].same
        /\ frame[i].wrote = frame[i].alone

\* A rate strictly between 0 and 1.
InUnitInterval(rate) == 0 < rate[1] /\ rate[1] < rate[2]

\* A median filter that can process samples: it was returned and its arrays
\* hold a window.
UsableFilter(m) == m.status = "created" /\ m.window_size > 0

\* C15: median_filter_create with a non-positive or even window size, and
\* peak_follower_create with attack_rate or release_rate outside (0,1), do
\* not produce a usable object; mindB > 0 is accepted, and min_val is then
\* the gain of 0 dB.
C15_ConstructionValidates ==
    /\ (/\ median.status # "none"
        /\ (median.window_size <= 0 \/ median.window_size % 2 = 0))
           => ~UsableFilter(median)
    /\ (/\ follower.status # "none"
        /\ ~(/\ InUnitInterval(follower.made.attack_rate)
             /\ InUnitInterval(follower.made.release_rate)))
           => follower.status # "created"
    /\ (follower.status # "none" /\ follower.mindB > 0)
           => /\ follower.status = "created"
              /\ follower.made.follower.min_val = db_to_linear(0)

\* The last W inputs, newest first, the inputs before the first taken as 0.
LastInputs(fed, W) ==
    [k \in 1..W |-> IF k <= Len(fed) THEN fed[Len(fed) - k + 1] ELSE 0]

\* m is the middle of the values of seq (of odd length): it is one of
\* them, and at most half of the others lie on either side of it.
IsMiddle(m, seq) ==
    /\ \E k \in 1..Len(seq) : seq[k] = m
    /\ Cardinality({k \in 1..Len(seq) : seq[k] < m}) <= Len(seq) \div 2
    /\ Cardinality({k \in 1..Len(seq) : seq[k] > m}) <= Len(seq) \div 2

\* C16: for a median filter of odd window W, the value returned by the
\* n-th call of median_filter_process is the median of the last W inputs,
\* the inputs before the first taken as 0; the history holds the last W
\* inputs, newest first.
C16_MedianOfLastInputs ==
    (median.status = "created" /\ median.window_size % 2 = 1) =>
        /\ median.values = LastInputs(median.fed, median.window_size)
        /\ Len(median.fed) > 0 =>
              IsMiddle(median.out, LastInputs(median.fed, median.window_size))

\* A filter of window 3 fed more than its window returns a value that is
\* neither the newest nor the oldest of three distinct inputs.
C16_Witness ==
    /\ median.status = "created"
    /\ median.window_size = 3
    /\ Len(median.fed) > 3
    /\ median.values[1] > median.out
    /\ median.values[3] < median.out

\* The sum of the entries 0 .. k - 1 of a ring buffer.
RECURSIVE SumOf(_, _)
SumOf(buffer, k) == IF k = 0 THEN 0 ELSE buffer[k - 1] + SumOf(buffer, k - 1)

\* The entry of index k after the samples of fed went into a ring of N: the
\* latest sample written there, 0 if none was.
RingEntry(fed, N, k) ==
    IF \E j \in 1..Len(fed) : (j - 1) % N = k
    THEN fed[CHOOSE j \in 1..Len(fed) :
                /\ (j - 1) % N = k
                /\ j > Len(fed) - N]
    ELSE 0

\* C17: after dc_blocker_create(N) and any sequence of dc_blocker_filter
\* calls, sum is the sum of the N ring entries, the ring holds the last
\* min(n, N) samples, and index stays within [0, N).
C17_BlockerSum ==
    blocker.status = "created" =>
        /\ blocker.self.sum = SumOf(blocker.self.buffer, blocker.self.buffer_length)
        /\ \A k \in 0..(blocker.self.buffer_length - 1) :
              blocker.self.buffer[k] =
                  RingEntry(blocker.fed, blocker.self.buffer_length, k)
        /\ blocker.self.index \in 0..(blocker.self.buffer_length - 1)

\* A ring of three has gone round: its entries differ and the sample that
\* left was not 0.
C17_Witness ==
    /\ blocker.status = "created"
    /\ blocker.self.buffer_length = 3
    /\ Len(blocker.fed) > 3
    /\ blocker.fed[1] # 0
    /\ blocker.self.buffer[0] # blocker.self.buffer[1]
    /\ blocker.self.sum # 0

\* The last n samples fed are all k.
Constant(fed, n, k) ==
    /\ Len(fed) >= n
    /\ \A j \in (Len(fed) - n + 1)..Len(fed) : fed[j] = k

\* C18: a DC blocker of length N fed a constant sample k, whatever came
\* before, returns 0 on the N-th consecutive sample of value k and on every
\* later one.
C18_ConstantBlocked ==
    blocker.status = "created" =>
        \A k \in BlockerSamples :
            Constant(blocker.fed, blocker.self.buffer_length, k) => blocker.out = 0

\* After other samples, a ring of three has just filled with the largest
\* sample and returns 0.
C18_Witness ==
    /\ blocker.status = "created"
    /\ blocker.self.buffer_length = 3
    /\ Len(blocker.fed) = 5
    /\ blocker.fed[1] = -32768
    /\ blocker.fed[2] = -1
    /\ Constant(blocker.fed, 3, 32767)
    /\ blocker.out = 0

\* C19: for a WAV dumper that received n samples, wav_dumper_destroy
\* patches the header so that the data size is 2 * n bytes and the chunk
\* size 36 + 2 * n, equal to the sample data written to the file.
C19_HeaderPatched ==
    writer.status = "destroyed" =>
        /\ wav_file.subchunk2_size = SampleBytes * Len(writer.sent)
        /\ wav_file.chunk_size = 36 + SampleBytes * Len(writer.sent)
        /\ wav_file.subchunk2_size = SampleBytes * Len(wav_file.data)

\* Detector i processes a sample in state from and is in state to after it.
Moves(i, from, to) ==
    /\ frame[i].pc = "loop"
    /\ det[i].data_counter < frame[i].len
    /\ det[i].ook_state = from
    /\ det'[i].ook_state = to

\* C21: a gap shorter than PD_MIN_PULSE_SAMPLES inside a pulse is absorbed:
\* GAP_START returns to PULSE without writing a gap entry or advancing
\* num_pulses, and the width stored when the pulse falls is the number of
\* samples from its first rising sample up to the falling one, the short
\* gaps included; GAP_START lasts at most PD_MIN_PULSE_SAMPLES samples.
C21_ShortGapAbsorbed ==
    [][\A i \in env.run :
          /\ Moves(i, PD_OOK_STATE_GAP_START, PD_OOK_STATE_PULSE) =>
                /\ pulses'[i].gap = pulses[i].gap
                /\ pulses'[i].pulse = pulses[i].pulse
                /\ pulses'[i].num_pulses = pulses[i].num_pulses
          /\ Moves(i, PD_OOK_STATE_PULSE, PD_OOK_STATE_GAP_START) =>
                Load(pulses'[i].pulse, pulses'[i].num_pulses)
                    = Pos(i) - frame[i].rose.at
          /\ det[i].ook_state = PD_OOK_STATE_GAP_START =>
                det[i].pulse_length < PD_MIN_PULSE_SAMPLES]_vars

\* A pulse that absorbed a short gap has fallen and its width is stored.
C21_Witness ==
    \E i \in env.run :
        /\ det[i].ook_state = PD_OOK_STATE_GAP_START
        /\ det[i].pulse_length = 0
        /\ frame[i].rose.mended
        /\ pulses[i].num_pulses > 0
        /\ Load(pulses[i].pulse, pulses[i].num_pulses) = Pos(i) - 1 - frame[i].rose.at

\* The largest pulse width among the entries of a record.
LargestPulse(p) ==
    CHOOSE m \in {Load(p.pulse, k) : k \in 0..(p.num_pulses - 1)} \union {0} :
        \A k \in 0..(p.num_pulses - 1) : Load(p.pulse, k) <= m

\* Detector i returns PULSE_DATA_OOK from GAP on this sample, no spurious
\* pulse being flagged and the record not being full.
GapReturns(i) ==
    /\ Moves(i, PD_OOK_STATE_GAP, PD_OOK_STATE_IDLE)
    /\ frame'[i].pc = "caller"
    /\ frame'[i].ret = PULSE_DATA_OOK
    /\ ~frame'[i].full
    /\ frame[i].eop_on_spurious = 0

\* C22: in GAP, with no spurious pulse flagged and the record not full,
\* PULSE_DATA_OOK is never returned while pulse_length is at most
\* PD_MIN_GAP_MS * samples_per_ms, and up to PD_MAX_GAP_MS * samples_per_ms
\* only if pulse_length exceeds PD_MAX_GAP_RATIO times the largest pulse
\* width stored in the package.
C22_NoPrematureEnd ==
    [][\A i \in env.run :
          GapReturns(i) =>
              /\ det[i].pulse_length + 1
                    > PD_MIN_GAP_MS * (frame[i].samp_rate \div 1000)
              /\ det[i].pulse_length + 1
                    <= PD_MAX_GAP_MS * (frame[i].samp_rate \div 1000)
                 => det[i].pulse_length + 1
                      > PD_MAX_GAP_RATIO * LargestPulse(pulses'[i])]_vars

\* A package whose gap outlasted the ratio is returned only once the gap
\* exceeds the minimum gap, at two samples per millisecond.
C22_Witness ==
    \E i \in env.run :
        /\ IsReturn(i, PULSE_DATA_OOK)
        /\ ~frame[i].full
        /\ frame[i].samp_rate = 2000
        /\ pulses[i].num_pulses = 1
        /\ PD_MAX_GAP_RATIO * Load(pulses[i].pulse, 0) < PD_MIN_GAP_MS * 2
        /\ Load(pulses[i].gap, 0) = PD_MIN_GAP_MS * 2 + 1

\* Detector i processes a sample in this step.
Stepped(i) ==
    /\ frame[i].pc = "loop"
    /\ det[i].data_counter < frame[i].len
    /\ det'[i] # det[i] \/ frame'[i] # frame[i]

\* C23: the FSK sub-detector is fed a sample only when the machine was in
\* PULSE or GAP_START at the start of the sample and pulses.num_pulses is 0,
\* and it is re-initialised, and not fed, on every IDLE to PULSE transition.
C23_FskFedInFirstPulse ==
    [][\A i \in env.run :
          /\ Stepped(i) /\ frame'[i].fed =>
                /\ det[i].ook_state \in {PD_OOK_STATE_PULSE, PD_OOK_STATE_GAP_START}
                /\ pulses[i].num_pulses = 0
                /\ pulses'[i].num_pulses = 0
          /\ Stepped(i) /\ Begins(det[i], det'[i]) =>
                /\ det'[i].pulse_detect_fsk = pulse_detect_fsk_init
                /\ ~frame'[i].fed]_vars

\* The sub-detector is fed in the first pulse of a burst that began by
\* re-initialising a sub-detector used before, and has closed a subpulse.
C23_Witness ==
    \E i \in env.run :
        /\ frame[i].pc = "loop"
        /\ frame[i].fed
        /\ frame[i].cleared
        /\ det[i].ook_state = PD_OOK_STATE_GAP_START
        /\ pulses[i].num_pulses = 0
        /\ fsk_pulses[i].num_pulses > 0

\* Detector i returns PULSE_DATA_FSK on the sample of this step.
FskReturns(i) ==
    /\ Stepped(i)
    /\ frame'[i].pc = "caller"
    /\ frame'[i].ret = PULSE_DATA_FSK

\* C24: PULSE_DATA_FSK is returned only from GAP_START, on the sample where
\* pulse_length reaches PD_MIN_PULSE_SAMPLES, the sample not exceeding the
\* high threshold and fsk_pulses.num_pulses exceeding PD_MIN_PULSES; the
\* wrap-up has run exactly when fpdm is FSK_PULSE_DETECT_OLD, fsk_pulses
\* holds the f1/f2 estimates of the sub-detector and the OOK estimates,
\* end_ago is len - data_counter on both records, and the machine is IDLE.
C24_FskReturn ==
    [][\A i \in env.run :
          FskReturns(i) =>
              /\ det[i].ook_state = PD_OOK_STATE_GAP_START
              /\ det[i].pulse_length + 1 = PD_MIN_PULSE_SAMPLES
              /\ frame'[i].seen[1] <= frame'[i].seen[2]
              /\ fsk_pulses[i].num_pulses > PD_MIN_PULSES
              /\ fsk_pulses'[i].num_pulses =
                    IF frame[i].fpdm = FSK_PULSE_DETECT_OLD
                    THEN pulse_detect_fsk_wrap_up(fsk_pulses[i]).num_pulses
                    ELSE fsk_pulses[i].num_pulses
              /\ fsk_pulses'[i].fsk_f1_est = det[i].pulse_detect_fsk.fm_f1_est
              /\ fsk_pulses'[i].fsk_f2_est = det[i].pulse_detect_fsk.fm_f2_est
              /\ fsk_pulses'[i].ook_low_estimate = det'[i].ook_low_estimate
              /\ fsk_pulses'[i].ook_high_estimate = det'[i].ook_high_estimate
              /\ fsk_pulses'[i].end_ago = frame[i].len - det[i].data_counter
              /\ pulses'[i].end_ago = frame[i].len - det[i].data_counter
              /\ det'[i].data_counter = det[i].data_counter
              /\ det'[i].ook_state = PD_OOK_STATE_IDLE]_vars

\* An FSK package returned in the old mode, the wrap-up having added the
\* trailing subpulse to the two the sub-detector closed.
C24_Witness ==
    \E i \in env.run :
        /\ IsReturn(i, PULSE_DATA_FSK)
        /\ frame[i].fpdm = FSK_PULSE_DETECT_OLD
        /\ fsk_pulses[i].num_pulses = PD_MIN_PULSES + 2
        /\ fsk_pulses[i].fsk_f2_est # 0
        /\ det[i].ook_state = PD_OOK_STATE_IDLE
        /\ fsk_pulses[i].end_ago = frame[i].len - det[i].data_counter

\* C25: whenever PULSE_DATA_FSK is returned, pulses.num_pulses is 0: an FSK
\* package ends the first pulse of a burst only, the sub-detector being free
\* to close a subpulse on any sample it is fed.
C25_FskEndsFirstPulse ==
    \A i \in env.run :
        IsReturn(i, PULSE_DATA_FSK) => pulses[i].num_pulses = 0

\* The AM peak follower of detector i reports high = 0 on the sample of this
\* step.
NoSignal(i) ==
    /\ Stepped(i)
    /\ det[i].use_peak_follower # 0
    /\ HighPeakOut(det'[i].peak_follower) = 0

\* C26: on a sample for which the AM peak follower reports high = 0 the
\* machine never leaves IDLE to start a pulse, whatever the low reads.
C26_SilenceStaysIdle ==
    [][\A i \in env.run :
          NoSignal(i) /\ det[i].ook_state = PD_OOK_STATE_IDLE
              => det'[i].ook_state = PD_OOK_STATE_IDLE]_vars

\* C27: every call of the two-output peak_follower_process sets both
\* outputs: high is 0 when |current_high_peak| < min_val and the integer
\* value of current_high_peak otherwise, and low is the integer value of
\* current_low_peak after the update.
C27_BothOutputsSet ==
    follower.status = "created" /\ follower.calls > 0 =>
        /\ follower.high_peak =
              IF Abs(follower.made.follower.current_high_peak)
                   < follower.made.follower.min_val
              THEN 0
              ELSE ToInt16(follower.made.follower.current_high_peak)
        /\ follower.low_peak = ToInt16(follower.made.follower.current_low_peak)

\* The part of C27 about high alone.
C27_HighSet ==
    follower.status = "created" /\ follower.calls > 0 =>
        follower.high_peak = HighPeakOut(follower.made.follower)

\* The sum of pulse[k] + gap[k] over the first n entries of a record.
RECURSIVE Widths(_, _)
Widths(p, n) ==
    IF n = 0 THEN 0
    ELSE Load(p.pulse, n - 1) + Load(p.gap, n - 1) + Widths(p, n - 1)

ReturnsAgain(i) ==
    /\ Stepped(i)
    /\ frame[i].ret # 0
    /\ frame'[i].pc = "caller"
    /\ frame'[i].ret # 0

\* C29: every call terminates; a call that follows a non-zero return gets
\* past the sample it was entered at before it returns non-zero again, so
\* the calls made on one buffer of length len number at most len + 1, each
\* returning one package at most.
C29_Progress ==
    /\ \A i \in Inst :
          (i \in env.run /\ frame[i].pc = "loop") ~> (frame[i].pc = "caller")
    /\ [][\A i \in env.run :
            /\ ReturnsAgain(i) => det'[i].data_counter > frame[i].entered
            /\ frame'[i].calls <= frame'[i].len + 1]_vars

\* The third call on a buffer returns 0 after two packages.
C29_Witness ==
    \E i \in env.run :
        /\ IsReturn(i, 0)
        /\ frame[i].calls = 3
        /\ frame[i].len = FskRun

Sign(v) == IF v > 0 THEN 1 ELSE IF v < 0 THEN -1 ELSE 0

\* Detector i stays in IDLE on the sample of this step.
StaysIdle(i) ==
    /\ Stepped(i)
    /\ det[i].ook_state = PD_OOK_STATE_IDLE
    /\ det'[i].ook_state = PD_OOK_STATE_IDLE

\* C30: in IDLE without a pulse start, low_est becomes
\* low_est + low_delta / OOK_EST_LOW_RATIO + sign(low_delta), with
\* low_delta = sample - low_est and sign(0) = 0, so that a sample equal to
\* low_est leaves it unchanged; high_est is recomputed and stays within
\* [ook_min_high_level, OOK_MAX_HIGH_LEVEL].
C30_NoiseEstimate ==
    [][\A i \in env.run :
          StaysIdle(i) =>
              /\ det'[i].ook_low_estimate =
                    det[i].ook_low_estimate
                    + CDiv(frame'[i].seen[1] - det[i].ook_low_estimate,
                           OOK_EST_LOW_RATIO)
                    + Sign(frame'[i].seen[1] - det[i].ook_low_estimate)
              /\ frame'[i].seen[1] = det[i].ook_low_estimate
                    => det'[i].ook_low_estimate = det[i].ook_low_estimate
              /\ det'[i].ook_high_estimate >= det[i].ook_min_high_level
              /\ det'[i].ook_high_estimate <= OOK_MAX_HIGH_LEVEL]_vars

\* The part of C30 about high_est alone.
C30_HighWithinLevels ==
    [][\A i \in env.run :
          StaysIdle(i) =>
              /\ det'[i].ook_high_estimate >= det[i].ook_min_high_level
              /\ det'[i].ook_high_estimate <= OOK_MAX_HIGH_LEVEL]_vars
====
